---- MODULE Spec2Model ----
(***************************************************************************)
(* Model of src/internal_macros.rs of bitcoin_hashes: the digest type that *)
(* `hash_type!` creates and the `crate::Hash` trait impl (plus FromStr and *)
(* Index) that `hash_trait_impls!` adds to it.                             *)
(*                                                                         *)
(* A run of the model is a client program that instantiates the macros for *)
(* one concrete type (NBITS, DISPLAY_BACKWARDS), holds two digest slots    *)
(* (x, y) and a few engines, and calls the generated operations one at a   *)
(* time.  (op, arg, res) is the last call: its name, its input, and what   *)
(* it returned.                                                            *)
(***************************************************************************)
EXTENDS Integers, Sequences, FiniteSets

VARIABLES ty, engines, x, y, op, arg, res

vars == <<ty, engines, x, y, op, arg, res>>

(***************************************************************************)
(* Bounds of the model.                                                    *)
(***************************************************************************)
\* Largest digest length, in bytes, of the concrete types instantiated.
MaxLen == 2
\* Most engines a run creates.
MaxEngines == 2
\* Most bytes a run feeds into one engine.
MaxInput == 1

\* Byte values the inputs are drawn from: 0x0a and 0xf1 (a leading zero
\* nibble, and two bytes whose nibbles differ).  0x00 enters by all_zeros.
SampleBytes == {10, 241}

\* Byte values fed to engines.
InputBytes == {10, 241}

(***************************************************************************)
(* Values returned by a call.                                              *)
(***************************************************************************)
\* A plain (non-Result) return value.
Value(v) == [tag |-> "Value", val |-> v]
Ok(v) == [tag |-> "Ok", val |-> v]
Err(e) == [tag |-> "Err", val |-> e]
\* The call did not return: the thread panicked.
Panic(msg) == [tag |-> "Panic", val |-> msg]

\* An empty digest slot.
None == <<>>

(***************************************************************************)
(* The concrete type: the consts the macro's user defines.                 *)
(***************************************************************************)
NBITS == ty.NBITS
DISPLAY_BACKWARDS == ty.DISPLAY_BACKWARDS

\* const LEN: usize = NBITS / 8;
LEN == NBITS \div 8
\* Mutant: the trait const left at false instead of taking the type's flag.
DISPLAY_BACKWARD_unset == FALSE

\* const DISPLAY_BACKWARD: bool = DISPLAY_BACKWARDS;
DISPLAY_BACKWARD == DISPLAY_BACKWARDS

\* The concrete types of a run: NBITS a positive multiple of 8.
Types == [NBITS : {8 * k : k \in 1..MaxLen}, DISPLAY_BACKWARDS : BOOLEAN]

(***************************************************************************)
(* Helpers on byte sequences.                                              *)
(***************************************************************************)
\* All sequences over S of length n.
SeqsOfLen(S, n) == [1..n -> S]

\* [v; n]
Repeat(v, n) == [i \in 1..n |-> v]

Reverse(s) == [i \in 1..Len(s) |-> s[Len(s) + 1 - i]]

\* Byte slices a caller passes: every length from 0 to LEN + 1.
Slices == UNION {SeqsOfLen(SampleBytes, n) : n \in 0..(LEN + 1)}

\* Byte arrays of the type Inner = [u8; NBITS / 8].
Inners == SeqsOfLen(SampleBytes, LEN)

(***************************************************************************)
(* struct Hash([u8; NBITS / 8]) and its inherent functions.                *)
(***************************************************************************)
\* fn internal_new(arr) -> Self { Hash(arr) }: a tuple struct of one field.
internal_new(arr) == <<arr>>

\* self.0
Field0(h) == h[1]

\* fn internal_engine() -> HashEngine { Default::default() }
internal_engine == [state |-> "accumulating", data |-> <<>>]

(***************************************************************************)
(* What the macros take from outside this file.                            *)
(***************************************************************************)
RECURSIVE Sum(_)
Sum(s) == IF s = <<>> THEN 0 ELSE s[1] + Sum(Tail(s))

\* The free-standing `fn from_engine(HashEngine) -> Hash` of the scope: the
\* algorithm's finalization.  A stand-in: total, deterministic, and of the
\* return type Hash, its bytes a function of the accumulated input.
free_from_engine(e) ==
  internal_new([i \in 1..LEN |-> (31 * Sum(e.data) + 7 * i + Len(e.data)) % 256])

\* HashEngine::input: appends the bytes to the accumulated state.
engine_input(e, b) == [e EXCEPT !.data = Append(e.data, b)]

\* Error::InvalidLength(usize, usize) of the crate.
InvalidLength(expected, actual) ==
  [kind |-> "InvalidLength", expected |-> expected, actual |-> actual]

(***************************************************************************)
(* impl crate::Hash for Hash.                                              *)
(***************************************************************************)
\* fn engine() -> Self::Engine { Self::internal_engine() }
engine == internal_engine

\* fn from_engine(e: HashEngine) -> Hash { from_engine(e) }
from_engine(e) == free_from_engine(e)

\* Mutant: the two lengths of the error in the wrong order.
from_slice_swapped(sl) ==
  IF Len(sl) # NBITS \div 8
    THEN Err(InvalidLength(Len(sl), LEN))
  ELSE Ok(internal_new([i \in 1..(NBITS \div 8) |-> sl[i]]))

\* Mutant: the buffer is returned without the copy into it.
from_slice_nocopy(sl) ==
  IF Len(sl) # NBITS \div 8
    THEN Err(InvalidLength(LEN, Len(sl)))
  ELSE Ok(internal_new(Repeat(0, NBITS \div 8)))

\* Mutant: no length check, the slice is taken as it is.
from_slice_unchecked(sl) == Ok(internal_new(sl))

\* fn from_slice(sl: &[u8]) -> Result<Hash, Error>
from_slice(sl) ==
  IF Len(sl) # NBITS \div 8
    THEN Err(InvalidLength(LEN, Len(sl)))
  ELSE LET ret0 == Repeat(0, NBITS \div 8)
           \* ret.copy_from_slice(sl)
           ret == [i \in DOMAIN ret0 |-> sl[i]]
       IN  Ok(internal_new(ret))

\* Mutant: the bytes in display order instead of storage order.
into_inner_display(h) ==
  IF DISPLAY_BACKWARD THEN Reverse(Field0(h)) ELSE Field0(h)

\* fn into_inner(self) -> Self::Inner { self.0 }
into_inner(h) == Field0(h)

\* fn as_inner(&self) -> &Self::Inner { &self.0 }
as_inner(h) == Field0(h)

\* fn from_inner(inner: Self::Inner) -> Self { Self::internal_new(inner) }
from_inner(inner) == internal_new(inner)

\* Mutant: NBITS zero bytes instead of NBITS / 8.
all_zeros_bits == internal_new(Repeat(0, NBITS))

\* fn all_zeros() -> Self { Hash::internal_new([0x00; NBITS / 8]) }
all_zeros == internal_new(Repeat(0, NBITS \div 8))

(***************************************************************************)
(* impl Index<I> for Hash: &self.0[index], for a position (usize) and for  *)
(* a range i..j.  Indexing a slice out of range panics.                    *)
(***************************************************************************)
At(i) == [kind |-> "usize", i |-> i]
Range(i, j) == [kind |-> "Range", i |-> i, j |-> j]

\* bytes[index] of a byte slice.
slice_index(bytes, index) ==
  IF index.kind = "usize"
    THEN IF index.i < Len(bytes) THEN Value(bytes[index.i + 1])
         ELSE Panic("index out of bounds")
  ELSE IF index.i > index.j THEN Panic("slice index starts after its end")
  ELSE IF index.j > Len(bytes) THEN Panic("range end index out of range")
  ELSE Value(SubSeq(bytes, index.i + 1, index.j))

\* Mutant: a checked lookup that returns nothing instead of panicking.
index_get(h, i) ==
  IF slice_index(Field0(h), i).tag = "Panic" THEN Value(<<>>)
  ELSE slice_index(Field0(h), i)

\* Mutant: indexes the bytes in display order instead of storage order.
index_display(h, i) ==
  slice_index(IF DISPLAY_BACKWARD THEN Reverse(Field0(h)) ELSE Field0(h), i)

\* fn index(&self, index: I) -> &Self::Output { &self.0[index] }
index(h, i) == slice_index(Field0(h), i)

(***************************************************************************)
(* derive(PartialEq, Eq, PartialOrd, Ord) on the struct: the comparisons   *)
(* of its one field, a byte array.                                         *)
(***************************************************************************)
\* Ord for u8.
cmp_u8(a, b) == IF a < b THEN "Less" ELSE IF a > b THEN "Greater" ELSE "Equal"

\* Mutant: the last pair of elements that differ decides.
cmp_bytes_backward(a, b) ==
  LET diff == {i \in 1..Len(a) : a[i] # b[i]}
  IN  IF diff = {} THEN "Equal"
      ELSE LET k == CHOOSE i \in diff : \A j \in diff : j <= i
           IN  cmp_u8(a[k], b[k])

\* Ord for arrays: the first pair of elements that differ decides.
RECURSIVE cmp_bytes(_, _)
cmp_bytes(a, b) ==
  IF a = <<>> /\ b = <<>> THEN "Equal"
  ELSE IF a = <<>> THEN "Less"
  ELSE IF b = <<>> THEN "Greater"
  ELSE IF cmp_u8(a[1], b[1]) # "Equal" THEN cmp_u8(a[1], b[1])
  ELSE cmp_bytes(Tail(a), Tail(b))

\* Ord::cmp, derived.
cmp(h1, h2) == cmp_bytes(Field0(h1), Field0(h2))

\* PartialEq::eq, derived: every element equal.
eq(h1, h2) ==
  /\ Len(Field0(h1)) = Len(Field0(h2))
  /\ \A i \in 1..Len(Field0(h1)) : Field0(h1)[i] = Field0(h2)[i]

\* PartialOrd::lt and gt, by the derived partial_cmp.
lt(h1, h2) == cmp(h1, h2) = "Less"
gt(h1, h2) == cmp(h1, h2) = "Greater"

(***************************************************************************)
(* Hex codec (hex.rs): text is a sequence of one-character strings.        *)
(***************************************************************************)
HexDigits == <<"0", "1", "2", "3", "4", "5", "6", "7",
               "8", "9", "a", "b", "c", "d", "e", "f">>
UpperDigits == <<"0", "1", "2", "3", "4", "5", "6", "7",
                 "8", "9", "A", "B", "C", "D", "E", "F">>

IsHexChar(c) == \E v \in 1..16 : HexDigits[v] = c \/ UpperDigits[v] = c

\* The value 0..15 of a hex character, either case.
HexVal(c) == (CHOOSE v \in 1..16 : HexDigits[v] = c \/ UpperDigits[v] = c) - 1

\* Two lowercase characters per byte, high nibble first.
byte_to_hex(b) == <<HexDigits[(b \div 16) + 1], HexDigits[(b % 16) + 1]>>

RECURSIVE format_hex(_)
format_hex(bytes) ==
  IF bytes = <<>> THEN <<>>
  ELSE byte_to_hex(bytes[1]) \o format_hex(Tail(bytes))

\* format_hex_reverse: the bytes from last to first.
format_hex_reverse(bytes) == format_hex(Reverse(bytes))

\* hex_fmt_impl!: LowerHex / Display of a digest.
to_hex(h) ==
  IF DISPLAY_BACKWARD THEN format_hex_reverse(Field0(h))
  ELSE format_hex(Field0(h))

\* HexIterator: the bytes of a text of even length, or the first error.
RECURSIVE hex_bytes(_)
hex_bytes(s) ==
  IF s = <<>> THEN Ok(<<>>)
  ELSE IF ~IsHexChar(s[1]) THEN Err([kind |-> "InvalidChar", char |-> s[1]])
  ELSE IF ~IsHexChar(s[2]) THEN Err([kind |-> "InvalidChar", char |-> s[2]])
  ELSE LET rest == hex_bytes(SubSeq(s, 3, Len(s)))
       IN  IF rest.tag = "Err" THEN rest
           ELSE Ok(<<16 * HexVal(s[1]) + HexVal(s[2])>> \o rest.val)

\* FromHex::from_hex for a digest type.
from_hex(s) ==
  IF Len(s) % 2 # 0
    THEN Err([kind |-> "OddLengthString", len |-> Len(s)])
  ELSE IF Len(s) \div 2 # LEN
    THEN Err([kind |-> "InvalidLength", expected |-> 2 * LEN, actual |-> Len(s)])
  ELSE LET bytes == hex_bytes(s)
       IN  IF bytes.tag = "Err" THEN bytes
           ELSE Ok(from_inner(IF DISPLAY_BACKWARD THEN Reverse(bytes.val)
                              ELSE bytes.val))

\* impl FromStr for Hash: fn from_str(s) { hex::FromHex::from_hex(s) }
from_str(s) == from_hex(s)

(***************************************************************************)
(* Inputs of the calls.                                                    *)
(***************************************************************************)
\* The same text in upper case.
Upper(t) == [i \in DOMAIN t |-> UpperDigits[HexVal(t[i]) + 1]]

\* Texts a caller parses: the hex of every slice, and for the slices of the
\* right length also its upper-case form, the text cut by one character and
\* the text with a character that is no hex digit.
Texts ==
  {format_hex(sl) : sl \in Slices}
    \cup {Upper(format_hex(sl)) : sl \in Inners}
    \cup {SubSeq(format_hex(sl), 1, 2 * LEN - 1) : sl \in Inners}
    \cup {[format_hex(sl) EXCEPT ![2 * LEN] = "g"] : sl \in Inners}

\* Positions and ranges a caller indexes with, in and out of range.
Indices ==
  {At(i) : i \in 0..(LEN + 1)}
    \cup {Range(i, j) : i \in 0..(LEN + 1), j \in 0..(LEN + 1)}

Slots == {"x", "y"}
Slot(s) == IF s = "x" THEN x ELSE y

\* Moves the digest h into slot dst.
Store(dst, h) ==
  /\ x' = IF dst = "x" THEN h ELSE x
  /\ y' = IF dst = "y" THEN h ELSE y

\* A moved-from engine: the binding is no longer usable.
Consumed == [state |-> "consumed", data |-> <<>>]

(***************************************************************************)
(* The state machine: one action per operation of the generated type.      *)
(***************************************************************************)
Init ==
  /\ ty \in Types
  /\ engines = <<>>
  /\ x = None
  /\ y = None
  /\ op = "init"
  /\ arg = <<>>
  /\ res = Value(<<>>)

\* let e = Hash::engine();
Engine ==
  /\ Len(engines) < MaxEngines
  /\ engines' = Append(engines, engine)
  /\ op' = "engine"
  /\ arg' = <<>>
  /\ res' = Value(engine)
  /\ UNCHANGED <<ty, x, y>>

\* e.input(&[b]);  only a live engine can be named.
Input(e, b) ==
  /\ e \in DOMAIN engines
  /\ engines[e].state = "accumulating"
  /\ Len(engines[e].data) < MaxInput
  /\ engines' = [engines EXCEPT ![e] = engine_input(@, b)]
  /\ op' = "input"
  /\ arg' = <<e, b>>
  /\ res' = Value(<<>>)
  /\ UNCHANGED <<ty, x, y>>

\* Mutant: the engine is borrowed, not moved: it stays usable after the call.
FromEngineBorrow(e, dst) ==
  /\ e \in DOMAIN engines
  /\ engines[e].state = "accumulating"
  /\ Store(dst, from_engine(engines[e]))
  /\ op' = "from_engine"
  /\ arg' = e
  /\ res' = Value(from_engine(engines[e]))
  /\ UNCHANGED <<ty, engines>>

\* let h = Hash::from_engine(e);  e is passed by value: it is moved into the
\* call, and the compiler accepts the call only for an engine not yet moved.
FromEngine(e, dst) ==
  /\ e \in DOMAIN engines
  /\ engines[e].state = "accumulating"
  /\ Store(dst, from_engine(engines[e]))
  /\ engines' = [engines EXCEPT ![e] = Consumed]
  /\ op' = "from_engine"
  /\ arg' = e
  /\ res' = Value(from_engine(engines[e]))
  /\ UNCHANGED ty

\* let r = Hash::from_slice(sl);  the digest of an Ok is kept in dst.
FromSlice(sl, dst) ==
  /\ op' = "from_slice"
  /\ arg' = sl
  /\ res' = from_slice(sl)
  /\ IF from_slice(sl).tag = "Ok"
       THEN Store(dst, from_slice(sl).val)
       ELSE UNCHANGED <<x, y>>
  /\ UNCHANGED <<ty, engines>>

\* let h = Hash::from_inner(inner);
FromInner(inner, dst) ==
  /\ op' = "from_inner"
  /\ arg' = inner
  /\ res' = Value(from_inner(inner))
  /\ Store(dst, from_inner(inner))
  /\ UNCHANGED <<ty, engines>>

\* let h = Hash::all_zeros();
AllZeros(dst) ==
  /\ op' = "all_zeros"
  /\ arg' = <<>>
  /\ res' = Value(all_zeros)
  /\ Store(dst, all_zeros)
  /\ UNCHANGED <<ty, engines>>

\* let h2 = h;  (derive(Copy, Clone))
Clone(src, dst) ==
  /\ Slot(src) # None
  /\ src # dst
  /\ op' = "clone"
  /\ arg' = Slot(src)
  /\ res' = Value(Slot(src))
  /\ Store(dst, Slot(src))
  /\ UNCHANGED <<ty, engines>>

\* h.into_inner()  (the digest is Copy: the slot keeps it)
IntoInner(src) ==
  /\ Slot(src) # None
  /\ op' = "into_inner"
  /\ arg' = Slot(src)
  /\ res' = Value(into_inner(Slot(src)))
  /\ UNCHANGED <<ty, engines, x, y>>

\* h.as_inner()
AsInner(src) ==
  /\ Slot(src) # None
  /\ op' = "as_inner"
  /\ arg' = Slot(src)
  /\ res' = Value(as_inner(Slot(src)))
  /\ UNCHANGED <<ty, engines, x, y>>

\* h[i]
IndexOp(src, i) ==
  /\ Slot(src) # None
  /\ op' = "index"
  /\ arg' = <<Slot(src), i>>
  /\ res' = index(Slot(src), i)
  /\ UNCHANGED <<ty, engines, x, y>>

\* h1.cmp(&h2), h1 == h2, h1 < h2, h1 > h2
Compare(s1, s2) ==
  /\ Slot(s1) # None
  /\ Slot(s2) # None
  /\ op' = "cmp"
  /\ arg' = <<Slot(s1), Slot(s2)>>
  /\ res' = Value([cmp |-> cmp(Slot(s1), Slot(s2)),
                   eq  |-> eq(Slot(s1), Slot(s2)),
                   lt  |-> lt(Slot(s1), Slot(s2)),
                   gt  |-> gt(Slot(s1), Slot(s2))])
  /\ UNCHANGED <<ty, engines, x, y>>

\* format!("{}", h)
ToHex(src) ==
  /\ Slot(src) # None
  /\ op' = "to_hex"
  /\ arg' = Slot(src)
  /\ res' = Value(to_hex(Slot(src)))
  /\ UNCHANGED <<ty, engines, x, y>>

\* let r = Hash::from_str(s);  the digest of an Ok is kept in dst.
FromStr(s, dst) ==
  /\ op' = "from_str"
  /\ arg' = s
  /\ res' = from_str(s)
  /\ IF from_str(s).tag = "Ok"
       THEN Store(dst, from_str(s).val)
       ELSE UNCHANGED <<x, y>>
  /\ UNCHANGED <<ty, engines>>

\* A program that builds digests from bytes and text and uses them.
Next ==
  \/ \E sl \in Slices, dst \in Slots : FromSlice(sl, dst)
  \/ \E inner \in Inners, dst \in Slots : FromInner(inner, dst)
  \/ \E dst \in Slots : AllZeros(dst)
  \/ \E src \in Slots, dst \in Slots : Clone(src, dst)
  \/ \E src \in Slots : IntoInner(src)
  \/ \E src \in Slots : AsInner(src)
  \/ \E src \in Slots, i \in Indices : IndexOp(src, i)
  \/ \E s1 \in Slots, s2 \in Slots : Compare(s1, s2)
  \/ \E src \in Slots : ToHex(src)
  \/ \E s \in Texts, dst \in Slots : FromStr(s, dst)

Spec == Init /\ [][Next]_vars

\* A program that hashes: it creates engines, feeds and finalizes them, and
\* also builds digests by the other three constructors.
EngineNext ==
  \/ Engine
  \/ \E e \in 1..MaxEngines, b \in InputBytes : Input(e, b)
  \/ \E e \in 1..MaxEngines : FromEngine(e, "x")
  \/ \E sl \in Slices : FromSlice(sl, "x")
  \/ \E inner \in Inners : FromInner(inner, "x")
  \/ AllZeros("x")

EngineSpec == Init /\ [][EngineNext]_vars

(***************************************************************************)
(* Properties.                                                             *)
(***************************************************************************)
\* The digest slots that hold a digest.
Held == {h \in {x, y} : h # None}

\* C1: for every byte slice s whose length differs from LEN (shorter, the
\* empty slice included, or longer), from_slice(s) returns the error
\* InvalidLength with expected = LEN and actual = len(s), and no digest.
C1_InvalidLength ==
  (op = "from_slice" /\ Len(arg) # ty.NBITS \div 8) =>
    /\ res.tag = "Err"
    /\ res.val.kind = "InvalidLength"
    /\ res.val.expected = ty.NBITS \div 8
    /\ res.val.actual = Len(arg)

\* A slice one byte too long was rejected.
C1_Witness ==
  /\ op = "from_slice"
  /\ Len(arg) = (ty.NBITS \div 8) + 1
  /\ res.tag = "Err"

\* C2: from_inner and into_inner are lossless inverses: into_inner of
\* from_inner(b) is b for every array b of LEN bytes, from_inner of
\* x.into_inner() is x for every digest x, and as_inner(x) is the same bytes
\* as into_inner(x).
C2_RoundTrip ==
  /\ op = "from_inner" =>
       /\ Len(arg) = ty.NBITS \div 8
       /\ into_inner(res.val) = arg
  /\ op = "into_inner" =>
       /\ from_inner(res.val) = arg
       /\ \A i \in 1..(ty.NBITS \div 8) : res.val[i] = arg[1][i]
  /\ op = "as_inner" => res.val = into_inner(arg)

\* into_inner returned the bytes of a digest whose first and last bytes differ.
C2_Witness ==
  /\ op = "into_inner"
  /\ arg[1][1] # arg[1][Len(arg[1])]
  /\ res.val = arg[1]

\* C3: for every byte slice s of exactly LEN bytes, from_slice(s) is Ok of a
\* digest whose bytes are s in the same order, the digest from_inner gives
\* for those bytes; and from_slice(x.as_inner()) is Ok(x) for every digest x.
C3_FromSliceCopies ==
  /\ (op = "from_slice" /\ Len(arg) = ty.NBITS \div 8) =>
       /\ res.tag = "Ok"
       /\ res.val = from_inner(arg)
       /\ \A i \in 1..Len(arg) : into_inner(res.val)[i] = arg[i]
  /\ \A h \in Held : from_slice(as_inner(h)) = Ok(h)

\* from_slice accepted a slice whose first and last bytes differ.
C3_Witness ==
  /\ op = "from_slice"
  /\ res.tag = "Ok"
  /\ arg[1] # arg[Len(arg)]
  /\ x = res.val

\* The operations that return a digest.
Constructors == {"from_engine", "from_slice", "from_inner", "all_zeros"}

\* C4: every digest has exactly LEN = NBITS / 8 bytes, whichever of
\* from_engine, from_slice, from_inner and all_zeros made it; the length is
\* the same for every digest of the type and is never zero.
C4_Length ==
  /\ \A h \in Held :
       /\ Len(Field0(h)) = ty.NBITS \div 8
       /\ Len(Field0(h)) > 0
  /\ (op \in Constructors /\ res.tag \in {"Ok", "Value"}) =>
       /\ Len(Field0(res.val)) = ty.NBITS \div 8
       /\ res.val \in Held

\* A digest of two bytes came out of an engine that had taken input.
C4_Witness ==
  /\ op = "from_engine"
  /\ x = res.val
  /\ Len(Field0(x)) = 2
  /\ Field0(x) # Field0(from_engine(engine))

\* Whether an index is out of range for an array of n bytes.
OutOfRange(i, n) ==
  IF i.kind = "usize" THEN i.i >= n ELSE i.i > i.j \/ i.j > n

\* C5 as stated: every operation other than from_slice and parsing from
\* text, indexing included, cannot fail for any input.
C5_AllOthersTotal ==
  op \notin {"from_slice", "from_str"} => res.tag \notin {"Err", "Panic"}

\* C5 as amended: from_slice and parsing fail only by returning an error;
\* indexing fails, by a panic, exactly for an index that is out of range;
\* every other operation returns a value for every input.
C5_TotalExceptIndexing ==
  /\ op \in {"from_slice", "from_str"} => res.tag \in {"Ok", "Err"}
  /\ op = "index" =>
       /\ res.tag \in {"Value", "Panic"}
       /\ res.tag = "Panic" <=> OutOfRange(arg[2], ty.NBITS \div 8)
  /\ op \notin {"from_slice", "from_str", "index"} => res.tag = "Value"

\* Indexing at the position one past the last byte panicked.
C5_Witness ==
  /\ op = "index"
  /\ arg[2] = At(ty.NBITS \div 8)
  /\ res.tag = "Panic"

LowerHexChars == {HexDigits[v] : v \in 1..16}

\* C6: parsing the hex text rendered from a digest x returns x, and the text
\* shows the bytes in storage order reversed if DISPLAY_BACKWARDS is set for
\* the type and in storage order otherwise, two lowercase digits per byte.
C6_HexRoundTrip ==
  op = "to_hex" =>
    LET text  == res.val
        bytes == into_inner(arg)
        shown == IF ty.DISPLAY_BACKWARDS THEN Reverse(bytes) ELSE bytes
    IN  /\ from_str(text) = Ok(arg)
        /\ Len(text) = 2 * Len(bytes)
        /\ \A k \in 1..Len(bytes) :
             /\ text[2 * k - 1] \in LowerHexChars
             /\ text[2 * k] \in LowerHexChars
             /\ 16 * HexVal(text[2 * k - 1]) + HexVal(text[2 * k]) = shown[k]

\* A digest of a type that displays backwards, whose first and last bytes
\* differ, was rendered.
C6_Witness ==
  /\ op = "to_hex"
  /\ ty.DISPLAY_BACKWARDS
  /\ arg[1][1] # arg[1][Len(arg[1])]
  /\ from_str(res.val) = Ok(arg)

\* a is lexicographically less than b (byte sequences of one length).
LexLess(a, b) ==
  \E k \in 1..Len(a) :
    /\ \A i \in 1..(k - 1) : a[i] = b[i]
    /\ a[k] < b[k]

\* C7: x < y iff the bytes of x are lexicographically less than those of y,
\* x == y iff their bytes are equal, and exactly one of x < y, x == y,
\* x > y holds.
C7_Ordering ==
  op = "cmp" =>
    LET a == into_inner(arg[1])
        b == into_inner(arg[2])
        r == res.val
    IN  /\ r.lt <=> LexLess(a, b)
        /\ r.gt <=> LexLess(b, a)
        /\ r.eq <=> a = b
        /\ r.eq <=> r.cmp = "Equal"
        /\ Cardinality({f \in {"lt", "eq", "gt"} : r[f]}) = 1

\* Two digests were compared whose first bytes order them one way and whose
\* last bytes the other way.
C7_Witness ==
  /\ op = "cmp"
  /\ arg[1][1][1] < arg[2][1][1]
  /\ arg[1][1][Len(arg[1][1])] > arg[2][1][Len(arg[2][1])]
  /\ res.val.lt

\* C8: x[i] and x[i..j] are what indexing x.as_inner() gives, and an index
\* or range out of range for the array fails for the digest as well.
C8_Indexing ==
  op = "index" =>
    LET h     == arg[1]
        i     == arg[2]
        bytes == as_inner(h)
    IN  /\ res = slice_index(bytes, i)
        /\ OutOfRange(i, Len(bytes)) => res.tag = "Panic"
        /\ (~OutOfRange(i, Len(bytes)) /\ i.kind = "usize") =>
             res = Value(bytes[i.i + 1])
        /\ (~OutOfRange(i, Len(bytes)) /\ i.kind = "Range") =>
             /\ res.tag = "Value"
             /\ Len(res.val) = i.j - i.i
             /\ \A k \in 1..(i.j - i.i) : res.val[k] = bytes[i.i + k]

\* The last byte of a digest whose first and last bytes differ was read.
C8_Witness ==
  /\ op = "index"
  /\ arg[2].kind = "usize"
  /\ arg[2].i = Len(arg[1][1]) - 1
  /\ arg[2].i > 0
  /\ res.tag = "Value"
  /\ res.val # arg[1][1][1]

\* C9: all_zeros() is a digest whose into_inner() is exactly LEN bytes, all
\* of them zero.
C9_AllZeros ==
  op = "all_zeros" =>
    /\ Len(into_inner(res.val)) = ty.NBITS \div 8
    /\ \A i \in 1..Len(into_inner(res.val)) : into_inner(res.val)[i] = 0
    /\ res.val \in Held

\* all_zeros made a digest of two bytes.
C9_Witness ==
  /\ op = "all_zeros"
  /\ into_inner(res.val) = <<0, 0>>

\* What a step does to the engines.
EngineStep ==
  /\ op' = "engine" =>
       /\ engines' = Append(engines, [state |-> "accumulating", data |-> <<>>])
  /\ op' = "input" =>
       /\ engines[arg'[1]].state = "accumulating"
       /\ engines'[arg'[1]].state = "accumulating"
  /\ op' = "from_engine" =>
       /\ engines[arg'].state = "accumulating"
       /\ engines'[arg'].state = "consumed"
       /\ x' = res'.val
       /\ x' # None
  /\ \A e \in DOMAIN engines :
       engines[e].state = "consumed" =>
         /\ e \in DOMAIN engines'
         /\ engines'[e] = engines[e]

\* C10: an engine is accumulating or consumed; engine() yields a fresh
\* accumulating engine, from_engine moves an accumulating engine to consumed
\* and yields a digest, and a consumed engine never accumulates again and is
\* never finalized again.
C10_EngineLifecycle ==
  /\ [](\A e \in DOMAIN engines :
          engines[e].state \in {"accumulating", "consumed"})
  /\ [][EngineStep]_vars

\* One engine has been finalized while another, created later, holds input.
C10_Witness ==
  /\ Len(engines) = 2
  /\ engines[1].state = "consumed"
  /\ engines[2].state = "accumulating"
  /\ engines[2].data # <<>>
  /\ x # None

====
